---------------------------- MODULE Spec2Model ----------------------------
(***************************************************************************)
(* Model of audio.go: the audio endpoints of the OpenAI client.            *)
(*                                                                         *)
(* A Go string is a sequence of one-character strings, so that             *)
(* strings.Contains and fmt.Sprintf("%.2f") are computed character by      *)
(* character.  A Go pointer is a record [nil, val].  A float32 is a record  *)
(* [class, eighths]: a finite multiple of 1/8 (every such value is exact   *)
(* in float32) held as the integer number of eighths, or one of NaN, +Inf, *)
(* -Inf.  An error is the text of its message, "" being the nil error.     *)
(*                                                                         *)
(* One call of CreateTranscription / CreateTranslation is synchronous.     *)
(* The model cuts it at its only blocking point, the HTTP round trip: the  *)
(* call action runs callAudioAPI up to and including the sending of the    *)
(* request, sendRequestReturns runs the rest once the reply is there.      *)
(* Everything the call does to its collaborators (the file system, the     *)
(* form builder, the transport) is recorded, in order, in trace.           *)
(***************************************************************************)
EXTENDS Integers, Sequences, FiniteSets, TLC

VARIABLES
    phase,          \* "idle" | "inflight" | "returned": where the call is
    request,        \* the AudioRequest of the call
    endpointSuffix, \* callAudioAPI's endpointSuffix
    ctx,            \* the caller's context: "nil" or "background"
    trace,          \* every file, builder and transport operation, in order
    httpRequests,   \* the HTTP requests handed to the transport, in order
    response,       \* the returned AudioResponse
    err             \* the returned error

vars == <<phase, request, endpointSuffix, ctx, trace, httpRequests, response, err>>

----------------------------------------------------------------------------
(* Bounds of the model. *)

\* The longest FileName tried.
MaxNameLen == 1

\* The finite temperatures run over -1/8 .. MaxTemp/8.
MaxTemp == 4

\* The builder's failAt-th operation of a call fails (0: none does).
MaxFailAt == 7

----------------------------------------------------------------------------
(* Go values. *)

NoErr == ""

NilPtr == [nil |-> TRUE, val |-> <<>>]

Ptr(v) == [nil |-> FALSE, val |-> v]

Whisper1 == <<"w", "h", "i", "s", "p", "e", "r", "-", "1">>

AudioResponseFormatJSON == <<"j", "s", "o", "n">>

AudioResponseFormatSRT == <<"s", "r", "t">>

AudioResponseFormatVTT == <<"v", "t", "t">>

\* strings.Contains(s, substr)
Contains(s, substr) ==
    \E i \in 0..(Len(s) - Len(substr)) : SubSeq(s, i + 1, i + Len(substr)) = substr

Digits == <<"0", "1", "2", "3", "4", "5", "6", "7", "8", "9">>

RECURSIVE Itoa(_)
\* The decimal digits of a natural number.
Itoa(n) == IF n < 10 THEN <<Digits[n + 1]>>
           ELSE Itoa(n \div 10) \o <<Digits[(n % 10) + 1]>>

\* The float32 values.
Finite(eighths) == [class |-> "finite", eighths |-> eighths]

NaN == [class |-> "NaN", eighths |-> 0]

PosInf == [class |-> "+Inf", eighths |-> 0]

NegInf == [class |-> "-Inf", eighths |-> 0]

\* t != 0 on float32: false of zero alone (NaN != 0 is true).
NotZero(t) == ~(t.class = "finite" /\ t.eighths = 0)

\* fmt.Sprintf("%.2f", t).  For a finite t = eighths/8 the exact value,
\* 12.5 * |eighths| hundredths, is rounded to the nearest hundredth, a tie going
\* to the even one; NaN and the infinities are written by name.
Sprintf2f(t) ==
    LET a == IF t.eighths < 0 THEN -t.eighths ELSE t.eighths
        q == (100 * a) \div 8
        r == (100 * a) % 8
        h == IF r > 4 THEN q + 1
             ELSE IF r < 4 THEN q
             ELSE IF q % 2 = 0 THEN q ELSE q + 1
    IN  CASE t.class = "NaN" -> <<"N", "a", "N">>
          [] t.class = "+Inf" -> <<"+", "I", "n", "f">>
          [] t.class = "-Inf" -> <<"-", "I", "n", "f">>
          [] OTHER -> (IF t.eighths < 0 THEN <<"-">> ELSE <<>>)
                      \o Itoa(h \div 100) \o <<".">>
                      \o <<Digits[((h % 100) \div 10) + 1], Digits[(h % 10) + 1]>>

----------------------------------------------------------------------------
(* The collaborators: the file system, the form builder, the transport. *)

\* One recorded operation.  name is the form field (or the HTTP method),
\* value its text (a path, a file name, a field value, a URL), data the bytes
\* of a file part, ok whether the operation succeeded.
Event(ev, name, value, data, ok) ==
    [ev |-> ev, name |-> name, value |-> value, data |-> data, ok |-> ok]

\* The operations of the formBuilder interface.
BuilderOps == {"createFormFile", "createFormFileFromBytes", "writeField", "close"}

IsBuilderOp(x) == x.ev \in BuilderOps

BuilderCalls(tr) == Len(SelectSeq(tr, IsBuilderOp))

\* The state of a run of audioMultipartForm: what it has done, and its error.
\* env is the environment of the call: whether os.Open succeeds, and which of
\* the builder's operations fails.
Start(env) == [trace |-> <<>>, err |-> NoErr, env |-> env]

\* A call of the builder: recorded, and failing when the environment says so.
builderCall(s, ev, name, value, data) ==
    LET ok == (BuilderCalls(s.trace) + 1) # s.env.failAt
    IN  [s EXCEPT !.trace = Append(@, Event(ev, name, value, data, ok)),
                  !.err = IF ok THEN NoErr ELSE "builder"]

createFormFile(s, fieldname, path) ==
    builderCall(s, "createFormFile", fieldname, path, <<>>)

createFormFileFromBytes(s, fieldname, filename, data) ==
    builderCall(s, "createFormFileFromBytes", fieldname, filename, data)

writeField(s, fieldname, value) ==
    builderCall(s, "writeField", fieldname, value, <<>>)

close(s) == builderCall(s, "close", "", <<>>, <<>>)

\* os.Open(path)
osOpen(s, path) ==
    [s EXCEPT !.trace = Append(@, Event("open", "", path, <<>>, s.env.openOK)),
              !.err = IF s.env.openOK THEN NoErr ELSE "open"]

\* fmt.Errorf(msg + ": %w", cause): the error of s, wrapped, when s has one.
Errorf(msg, s) == IF s.err = NoErr THEN s ELSE [s EXCEPT !.err = msg]

----------------------------------------------------------------------------
(* audioMultipartForm *)

IsOpen(x) == x.ev = "open" /\ x.ok

IsFileClose(x) == x.ev = "fclose"

\* The file handles open after the operations of tr.
OpenHandles(tr) == Len(SelectSeq(tr, IsOpen)) - Len(SelectSeq(tr, IsFileClose))

\* A plausible slip: the file is closed at the end of the function only, not
\* by a defer, so that an early return leaves it open.
deferred_OnSuccessOnly(s) ==
    IF OpenHandles(s.trace) > 0 /\ s.err = NoErr
    THEN [s EXCEPT !.trace = Append(@, Event("fclose", "", <<>>, <<>>, TRUE))]
    ELSE s

\* defer f.Close(): runs when audioMultipartForm returns, once the file is open.
deferred(s) ==
    IF OpenHandles(s.trace) > 0
    THEN [s EXCEPT !.trace = Append(@, Event("fclose", "", <<>>, <<>>, TRUE))]
    ELSE s

\* Create from filesystem path.
sourceFromPath(req, s) ==
    LET f == osOpen(s, req.FilePath)
    IN  IF f.err # NoErr THEN Errorf("opening audio file", f)
        ELSE Errorf("creating form file", createFormFile(f, "file", req.FilePath))

\* A plausible slip: only a nil FileName is refused, the extension is not looked for.
sourceFromBytes_NilOnly(req, s) ==
    IF req.FileName.nil
    THEN [s EXCEPT !.err = "FileName with correct extension is required while FileBytes is used"]
    ELSE Errorf("creating form bytes",
                createFormFileFromBytes(s, "file", req.FileName.val, req.FileBytes.val))

\* Create from provided bytes.
sourceFromBytes(req, s) ==
    IF req.FileName.nil \/ Contains(req.FileName.val, <<".">>) = FALSE
    THEN [s EXCEPT !.err = "FileName with correct extension is required while FileBytes is used"]
    ELSE Errorf("creating form bytes",
                createFormFileFromBytes(s, "file", req.FileName.val, req.FileBytes.val))

\* A plausible slip: the final else is missing, and a request with no source
\* goes on to the fields.
resolveSource_NoElse(req, s) ==
    IF req.FilePath # <<>> THEN sourceFromPath(req, s)
    ELSE IF ~req.FileBytes.nil THEN sourceFromBytes(req, s)
    ELSE s

\* A plausible slip: the bytes are looked at before the path.
resolveSource_BytesFirst(req, s) ==
    IF ~req.FileBytes.nil THEN sourceFromBytes(req, s)
    ELSE IF req.FilePath # <<>> THEN sourceFromPath(req, s)
    ELSE [s EXCEPT !.err = "either FilePath or FileBytes should be specified"]

resolveSource(req, s) ==
    IF req.FilePath # <<>> THEN sourceFromPath(req, s)
    ELSE IF ~req.FileBytes.nil THEN sourceFromBytes(req, s)
    ELSE [s EXCEPT !.err = "either FilePath or FileBytes should be specified"]

writeModel(req, s) == Errorf("writing model name", writeField(s, "model", req.Model))

\* Create a form field for the prompt (if provided).
writePrompt(req, s) ==
    IF req.Prompt # <<>> THEN Errorf("writing prompt", writeField(s, "prompt", req.Prompt))
    ELSE s

\* Create a form field for the format (if provided).
writeFormat(req, s) ==
    IF req.Format # <<>>
    THEN Errorf("writing format", writeField(s, "response_format", req.Format))
    ELSE s

\* A plausible slip: > 0 for != 0.
writeTemperature_PositiveOnly(req, s) ==
    IF req.Temperature.class = "+Inf"
       \/ (req.Temperature.class = "finite" /\ req.Temperature.eighths > 0)
    THEN Errorf("writing temperature",
                writeField(s, "temperature", Sprintf2f(req.Temperature)))
    ELSE s

\* Create a form field for the temperature (if provided).
writeTemperature(req, s) ==
    IF NotZero(req.Temperature)
    THEN Errorf("writing temperature",
                writeField(s, "temperature", Sprintf2f(req.Temperature)))
    ELSE s

\* Create a form field for the language (if provided).
writeLanguage(req, s) ==
    IF req.Language # <<>>
    THEN Errorf("writing language", writeField(s, "language", req.Language))
    ELSE s

\* A plausible slip: the error of the prompt's write is not checked.
writeFields_Unchecked(req, s) ==
    LET m == writeModel(req, s) IN
    IF m.err # NoErr THEN m ELSE
    LET p == writePrompt(req, m) IN
    LET f == writeFormat(req, p) IN
    IF f.err # NoErr THEN f ELSE
    LET t == writeTemperature(req, f) IN
    IF t.err # NoErr THEN t ELSE
    LET l == writeLanguage(req, t) IN
    IF l.err # NoErr THEN l ELSE
    close(l)

\* A plausible slip: the temperature is written before the format.
writeFields_Swapped(req, s) ==
    LET m == writeModel(req, s) IN
    IF m.err # NoErr THEN m ELSE
    LET p == writePrompt(req, m) IN
    IF p.err # NoErr THEN p ELSE
    LET t == writeTemperature(req, p) IN
    IF t.err # NoErr THEN t ELSE
    LET f == writeFormat(req, t) IN
    IF f.err # NoErr THEN f ELSE
    LET l == writeLanguage(req, f) IN
    IF l.err # NoErr THEN l ELSE
    close(l)

\* The body of audioMultipartForm after the source: each step returns at once
\* when it fails.
writeFields(req, s) ==
    LET m == writeModel(req, s) IN
    IF m.err # NoErr THEN m ELSE
    LET p == writePrompt(req, m) IN
    IF p.err # NoErr THEN p ELSE
    LET f == writeFormat(req, p) IN
    IF f.err # NoErr THEN f ELSE
    LET t == writeTemperature(req, f) IN
    IF t.err # NoErr THEN t ELSE
    LET l == writeLanguage(req, t) IN
    IF l.err # NoErr THEN l ELSE
    close(l)

audioMultipartForm(req, env) ==
    LET src == resolveSource(req, Start(env))
    IN  deferred(IF src.err # NoErr THEN src ELSE writeFields(req, src))

----------------------------------------------------------------------------
(* callAudioAPI *)

\* A plausible slip: the unset format is not taken for JSON.
HasJSONResponse_JSONOnly(req) == req.Format = AudioResponseFormatJSON

\* A plausible slip: the explicit "json" is not taken for JSON.
HasJSONResponse_UnsetOnly(req) == req.Format = <<>>

\* HasJSONResponse returns true if the response format is JSON.
HasJSONResponse(req) == req.Format = <<>> \/ req.Format = AudioResponseFormatJSON

BaseURL == <<"h", ":", "/", "/", "o">>

AudioPath == <<"/", "a", "u", "d", "i", "o", "/">>

Transcriptions == <<"t", "r", "a", "n", "s", "c", "r", "i", "p", "t", "i", "o", "n", "s">>

Translations == <<"t", "r", "a", "n", "s", "l", "a", "t", "i", "o", "n", "s">>

\* c.fullURL(suffix): the configured base URL followed by the suffix.
fullURL(suffix) == BaseURL \o suffix

\* What the builder has written to formBody: the parts written, in order.
FormBody(tr) ==
    LET IsPart(x) == IsBuilderOp(x) /\ x.ev # "close" /\ x.ok
        parts == SelectSeq(tr, IsPart)
    IN  [i \in 1..Len(parts) |->
            [name |-> parts[i].name, value |-> parts[i].value, data |-> parts[i].data]]

\* builder.formDataContentType()
formDataContentType == "multipart/form-data"

\* http.NewRequestWithContext(ctx, method, url, body): fails on a nil context.
NewRequestWithContext(c, method, url, body) ==
    IF c = "nil"
    THEN [err |-> "net/http: nil Context", req |-> <<>>]
    ELSE [err |-> NoErr,
          req |-> [method |-> method, url |-> url, body |-> body, contentType |-> ""]]

EmptyResponse == [Text |-> <<>>]

\* The result of callAudioAPI so far: where the call is, what it did, what it
\* handed to the transport, and what it returns.
Outcome(ph, tr, sent, resp, e) ==
    [phase |-> ph, trace |-> tr, httpRequests |-> sent, response |-> resp, err |-> e]

\* c.sendRequest(req, v), up to the request being on the wire.
send(tr, req) ==
    Outcome("inflight", Append(tr, Event("send", req.method, req.url, <<>>, TRUE)),
            <<req>>, EmptyResponse, NoErr)

\* A plausible slip: the URL is built from the endpoint alone, without /audio/.
callAudioAPI_NoAudioPath(req, suffix, c, env) ==
    LET form == audioMultipartForm(req, env)
        new == NewRequestWithContext(c, "POST", fullURL(suffix), FormBody(form.trace))
    IN  IF form.err # NoErr
        THEN Outcome("returned", form.trace, <<>>, EmptyResponse, form.err)
        ELSE IF new.err # NoErr
        THEN Outcome("returned", form.trace, <<>>, EmptyResponse, new.err)
        ELSE send(form.trace, [new.req EXCEPT !.contentType = formDataContentType])

\* callAudioAPI from its entry to the sending of the request.
callAudioAPI(req, suffix, c, env) ==
    LET form == audioMultipartForm(req, env)
        new == NewRequestWithContext(c, "POST", fullURL(AudioPath \o suffix),
                                     FormBody(form.trace))
    IN  IF form.err # NoErr
        THEN Outcome("returned", form.trace, <<>>, EmptyResponse, form.err)
        ELSE IF new.err # NoErr
        THEN Outcome("returned", form.trace, <<>>, EmptyResponse, new.err)
        ELSE send(form.trace, [new.req EXCEPT !.contentType = formDataContentType])

\* The reply bodies tried: a JSON object, and subtitle text.
BodyJSON == <<"{", "\"", "t", "e", "x", "t", "\"", ":", "\"", "x", "\"", "}">>

BodySRT == <<"1", "\n", "h", "i">>

JSONPrefix == <<"{", "\"", "t", "e", "x", "t", "\"", ":", "\"">>

JSONSuffix == <<"\"", "}">>

\* json.Decode of a body into AudioResponse: the object {"text":"..."} (or the
\* empty object) decodes, anything else is an error.
jsonDecode(body) ==
    LET n == Len(body)
        p == Len(JSONPrefix)
        q == Len(JSONSuffix)
        text == SubSeq(body, p + 1, n - q)
    IN  IF body = <<"{", "}">> THEN [err |-> NoErr, response |-> EmptyResponse]
        ELSE IF /\ n >= p + q
                /\ SubSeq(body, 1, p) = JSONPrefix
                /\ SubSeq(body, n - q + 1, n) = JSONSuffix
                /\ ~Contains(text, <<"\"">>)
        THEN [err |-> NoErr, response |-> [Text |-> text]]
        ELSE [err |-> "decode", response |-> EmptyResponse]

\* decodeResponse: into a *string the whole body, verbatim; else JSON.
decodeResponse(body, v) ==
    IF v = "*string" THEN [err |-> NoErr, response |-> [Text |-> body]]
    ELSE jsonDecode(body)

\* c.sendRequest(req, v), from the reply on: a transport failure, or the body
\* decoded into v.
sendRequest(reply, v) ==
    IF ~reply.ok THEN [err |-> "transport", response |-> EmptyResponse]
    ELSE decodeResponse(reply.body, v)

\* callAudioAPI from the reply to its return.
callAudioAPIReturn(req, reply) ==
    LET r == IF HasJSONResponse(req) THEN sendRequest(reply, "*AudioResponse")
             ELSE sendRequest(reply, "*string")
    IN  IF r.err # NoErr THEN [response |-> EmptyResponse, err |-> r.err]
        ELSE [response |-> r.response, err |-> NoErr]

----------------------------------------------------------------------------
(* The inputs tried. *)

SeqsUpTo(S, n) == UNION {[1..k -> S] : k \in 0..n}

FileNames == SeqsUpTo({"a", "."}, MaxNameLen)

Requests ==
    [Model : {Whisper1},
     FilePath : {<<>>, <<"a", ".", "w", "a", "v">>},
     FileBytes : {NilPtr, Ptr(<<1>>)},
     FileName : {NilPtr} \cup {Ptr(n) : n \in FileNames},
     Prompt : {<<>>, <<"h", "i">>},
     Temperature : {Finite(k) : k \in (-1)..MaxTemp} \cup {NaN, PosInf, NegInf},
     Language : {<<>>, <<"e", "n">>},
     Format : {<<>>, AudioResponseFormatJSON, AudioResponseFormatSRT,
               AudioResponseFormatVTT}]

Contexts == {"nil", "background"}

Envs == [openOK : BOOLEAN, failAt : 0..MaxFailAt]

NoFaults == [openOK |-> TRUE, failAt |-> 0]

Replies == {[ok |-> FALSE, body |-> <<>>],
            [ok |-> TRUE, body |-> BodyJSON],
            [ok |-> TRUE, body |-> BodySRT]}

----------------------------------------------------------------------------
(* The state machine. *)

Init ==
    /\ phase = "idle"
    /\ request = [Model |-> <<>>, FilePath |-> <<>>, FileBytes |-> NilPtr,
                  FileName |-> NilPtr, Prompt |-> <<>>, Temperature |-> Finite(0),
                  Language |-> <<>>, Format |-> <<>>]
    /\ endpointSuffix = <<>>
    /\ ctx = "nil"
    /\ trace = <<>>
    /\ httpRequests = <<>>
    /\ response = EmptyResponse
    /\ err = NoErr

\* A call enters callAudioAPI and runs until it returns or waits for the reply.
Call(suffix) ==
    /\ phase = "idle"
    /\ \E req \in Requests, c \in Contexts, env \in Envs :
         LET out == callAudioAPI(req, suffix, c, env)
         IN  /\ request' = req
             /\ endpointSuffix' = suffix
             /\ ctx' = c
             /\ phase' = out.phase
             /\ trace' = out.trace
             /\ httpRequests' = out.httpRequests
             /\ response' = out.response
             /\ err' = out.err

\* CreateTranscription - API call to create a transcription.
CreateTranscription == Call(Transcriptions)

\* CreateTranslation - API call to translate audio into English.
CreateTranslation == Call(Translations)

\* The reply arrives, sendRequest returns and so does callAudioAPI.
sendRequestReturns ==
    /\ phase = "inflight"
    /\ \E reply \in Replies :
         LET out == callAudioAPIReturn(request, reply)
         IN  /\ phase' = "returned"
             /\ trace' = Append(trace, Event("reply", "", reply.body, <<>>, reply.ok))
             /\ response' = out.response
             /\ err' = out.err
    /\ UNCHANGED <<request, endpointSuffix, ctx, httpRequests>>

Next == CreateTranscription \/ CreateTranslation \/ sendRequestReturns

Spec == Init /\ [][Next]_vars

----------------------------------------------------------------------------
(* What the claims speak of. *)

\* The call has run (to its return, or to the sending of its request).
Called == phase # "idle"

\* The builder's operations of the call, in order.
Ops == SelectSeq(trace, IsBuilderOp)

\* audioMultipartForm returned nil: its close() succeeded.
AssemblyOK == \E i \in DOMAIN trace : trace[i].ev = "close" /\ trace[i].ok

\* The HTTP requests put on the wire, by the trace.
Sends == SelectSeq(trace, LAMBDA x : x.ev = "send")

\* The parts of the form with this field name.
Parts(name) == SelectSeq(FormBody(trace), LAMBDA x : x.name = name)

NeitherSource == request.FilePath = <<>> /\ request.FileBytes.nil

BadFileName == request.FileName.nil \/ ~(\E i \in DOMAIN request.FileName.val :
                                            request.FileName.val[i] = ".")

MsgNeither == "either FilePath or FileBytes should be specified"

MsgFileName == "FileName with correct extension is required while FileBytes is used"

\* C1: a request with FilePath empty and FileBytes nil is refused with the
\* validation error 'either FilePath or FileBytes should be specified' before
\* any file or builder operation, and the call returns that error without any
\* HTTP request, whatever its other fields are.
C1_NeitherSourceRefused ==
    (Called /\ NeitherSource) =>
        /\ phase = "returned"
        /\ err = MsgNeither
        /\ trace = <<>>
        /\ httpRequests = <<>>
        /\ response = EmptyResponse

C1_Witness ==
    /\ phase = "returned" /\ NeitherSource /\ err = MsgNeither
    /\ request.Prompt # <<>> /\ request.Temperature = Finite(4)
    /\ ~request.FileName.nil /\ ctx = "background"

\* C2 as stated: every request that supplies FileBytes with a FileName that is
\* nil or has no '.' fails with the validation error, with no builder operation
\* and no HTTP request.
C2_AsStated ==
    (Called /\ ~request.FileBytes.nil /\ BadFileName) =>
        /\ err = MsgFileName
        /\ Ops = <<>>
        /\ httpRequests = <<>>

\* C2, amended: a request with FilePath empty that supplies FileBytes with a
\* FileName that is nil or has no '.' fails with the validation error:
\* createFormFileFromBytes is never invoked, no field is written, the builder is
\* not closed and no HTTP request is made.
C2_BadFileNameRefused ==
    (Called /\ request.FilePath = <<>> /\ ~request.FileBytes.nil /\ BadFileName) =>
        /\ phase = "returned"
        /\ err = MsgFileName
        /\ trace = <<>>
        /\ httpRequests = <<>>

C2_Witness ==
    /\ phase = "returned" /\ request.FilePath = <<>> /\ ~request.FileBytes.nil
    /\ ~request.FileName.nil /\ request.FileName.val = <<"a">>
    /\ err = MsgFileName

\* The error audioMultipartForm returns when this operation has failed.
ErrorOf(x) ==
    CASE x.ev = "open" -> "opening audio file"
      [] x.ev = "createFormFile" -> "creating form file"
      [] x.ev = "createFormFileFromBytes" -> "creating form bytes"
      [] x.ev = "close" -> "builder"
      [] x.ev = "writeField" /\ x.name = "model" -> "writing model name"
      [] x.ev = "writeField" /\ x.name = "prompt" -> "writing prompt"
      [] x.ev = "writeField" /\ x.name = "response_format" -> "writing format"
      [] x.ev = "writeField" /\ x.name = "temperature" -> "writing temperature"
      [] x.ev = "writeField" /\ x.name = "language" -> "writing language"
      [] OTHER -> "?"

\* An operation of the assembly (the file's open, or one of the builder's).
IsAssemblyOp(x) == x.ev = "open" \/ IsBuilderOp(x)

\* C3: when a step of audioMultipartForm fails (the file's open, the file part,
\* a field write, close), no later builder operation is performed, no HTTP
\* request is issued and the call returns that step's error; a FilePath that
\* cannot be opened gives an 'opening audio file' error with no builder
\* operation at all; validation errors likewise send nothing; and a request is
\* only ever sent after close() has succeeded.
C3_FailureShortCircuits ==
    /\ \A i \in DOMAIN trace :
         (IsAssemblyOp(trace[i]) /\ ~trace[i].ok) =>
            /\ \A j \in DOMAIN trace : j > i => trace[j].ev = "fclose"
            /\ httpRequests = <<>>
            /\ phase = "returned"
            /\ err = ErrorOf(trace[i])
            /\ response = EmptyResponse
            /\ trace[i].ev = "open" => Ops = <<>>
    /\ (Called /\ ~AssemblyOK) =>
            phase = "returned" /\ err # NoErr /\ httpRequests = <<>> /\ Sends = <<>>
    /\ \A j \in DOMAIN trace :
         trace[j].ev = "send" =>
            \E i \in 1..(j - 1) : trace[i].ev = "close" /\ trace[i].ok
    /\ Len(httpRequests) = Len(Sends)

C3_Witness ==
    /\ phase = "returned"
    /\ \E i \in DOMAIN trace :
         /\ trace[i].ev = "writeField" /\ trace[i].name = "prompt" /\ ~trace[i].ok
         /\ request.Language # <<>> /\ request.Temperature = Finite(2)
    /\ err = "writing prompt"
    /\ httpRequests = <<>>

\* The place of a builder operation in the form.
Rank(x) ==
    CASE x.ev \in {"createFormFile", "createFormFileFromBytes"} /\ x.name = "file" -> 1
      [] x.ev = "writeField" /\ x.name = "model" -> 2
      [] x.ev = "writeField" /\ x.name = "prompt" -> 3
      [] x.ev = "writeField" /\ x.name = "response_format" -> 4
      [] x.ev = "writeField" /\ x.name = "temperature" -> 5
      [] x.ev = "writeField" /\ x.name = "language" -> 6
      [] x.ev = "close" -> 7
      [] OTHER -> 0

\* C4: in a successful run of audioMultipartForm the builder operations come in
\* this order: the 'file' part, 'model', then those present of 'prompt',
\* 'response_format', 'temperature', 'language', then close, last; none occurs
\* twice, none before 'file' or after close.
C4_FieldOrder ==
    AssemblyOK =>
        /\ Len(Ops) >= 3
        /\ Rank(Ops[1]) = 1
        /\ Rank(Ops[2]) = 2
        /\ Rank(Ops[Len(Ops)]) = 7
        /\ \A i \in 1..(Len(Ops) - 1) : Rank(Ops[i]) < Rank(Ops[i + 1])
        /\ \A i \in DOMAIN Ops : Rank(Ops[i]) > 0 /\ Ops[i].ok

C4_Witness ==
    /\ AssemblyOK
    /\ Len(Ops) = 7
    /\ Ops[4].name = "response_format" /\ Ops[5].name = "temperature"

\* The reply of the transport, once it is there.
Replied == trace # <<>> /\ trace[Len(trace)].ev = "reply"

LastReply == trace[Len(trace)]

IsDigit(c) == \E d \in 1..10 : Digits[d] = c

DigitVal(c) == CHOOSE d \in 0..9 : Digits[d + 1] = c

RECURSIVE NatOf(_)
\* The number a sequence of digits writes.
NatOf(ds) == IF ds = <<>> THEN 0
             ELSE 10 * NatOf(SubSeq(ds, 1, Len(ds) - 1)) + DigitVal(ds[Len(ds)])

\* v has exactly two digits after the point: a sign or none, digits, a point,
\* two digits.
HasTwoDecimals(v) ==
    LET b == IF v # <<>> /\ v[1] = "-" THEN Tail(v) ELSE v
        n == Len(b)
    IN  /\ n >= 4
        /\ b[n - 2] = "."
        /\ \A i \in (1..n) \ {n - 2} : IsDigit(b[i])

\* v writes eighths/8 with two digits after the point: the number written is
\* within half a hundredth of eighths/8, and of its sign.
WritesEighths(v, eighths) ==
    LET neg == v # <<>> /\ v[1] = "-"
        b == IF neg THEN Tail(v) ELSE v
        n == Len(b)
        a == IF eighths < 0 THEN -eighths ELSE eighths
        h == 100 * NatOf(SubSeq(b, 1, n - 3)) + NatOf(SubSeq(b, n - 1, n))
    IN  /\ HasTwoDecimals(v)
        /\ neg <=> eighths < 0
        /\ 8 * h - 100 * a \in (-4)..4

\* The form has the field exactly when present says so, once, with this value.
FieldIff(name, present, value) ==
    IF present THEN Parts(name) = <<[name |-> name, value |-> value, data |-> <<>>]>>
    ELSE Parts(name) = <<>>

TemperatureIsZero == request.Temperature = [class |-> "finite", eighths |-> 0]

\* The presence of the four optional fields, and the values of the three strings.
OptionalFieldsPresence ==
    /\ Len(Parts("temperature")) = (IF TemperatureIsZero THEN 0 ELSE 1)
    /\ FieldIff("prompt", request.Prompt # <<>>, request.Prompt)
    /\ FieldIff("language", request.Language # <<>>, request.Language)
    /\ FieldIff("response_format", request.Format # <<>>, request.Format)

\* C6 as stated: when the assembly succeeds, the form has a 'temperature' field
\* if and only if request.Temperature != 0, its value having exactly two digits
\* after the point; 'prompt', 'language' and 'response_format' are there if and
\* only if the request's string is not empty.
C6_AsStated ==
    AssemblyOK =>
        /\ OptionalFieldsPresence
        /\ \A i \in DOMAIN Parts("temperature") :
             HasTwoDecimals(Parts("temperature")[i].value)

\* C6, amended: when the assembly succeeds, the form has a 'temperature' field
\* if and only if request.Temperature != 0; for a finite temperature its value
\* is the temperature rounded to exactly two digits after the point (0.5 gives
\* "0.50"), for NaN, +Inf and -Inf it is the text NaN, +Inf, -Inf; 'prompt',
\* 'language' and 'response_format' are there if and only if the request's
\* string is not empty.
C6_OptionalFields ==
    AssemblyOK =>
        /\ OptionalFieldsPresence
        /\ \A i \in DOMAIN Parts("temperature") :
             LET v == Parts("temperature")[i].value
             IN  /\ request.Temperature.class = "finite" =>
                      WritesEighths(v, request.Temperature.eighths)
                 /\ request.Temperature.class = "NaN" => v = <<"N", "a", "N">>
                 /\ request.Temperature.class = "+Inf" => v = <<"+", "I", "n", "f">>
                 /\ request.Temperature.class = "-Inf" => v = <<"-", "I", "n", "f">>
        /\ request.Temperature = [class |-> "finite", eighths |-> 4] =>
             Parts("temperature")[1].value = <<"0", ".", "5", "0">>

C6_Witness ==
    /\ AssemblyOK
    /\ request.Temperature = [class |-> "finite", eighths |-> 1]
    /\ Parts("temperature") # <<>>
    /\ Parts("temperature")[1].value = <<"0", ".", "1", "2">>
    /\ request.Prompt = <<>> /\ Parts("prompt") = <<>>

\* C7: a file handle opened for a FilePath source is closed by the time
\* audioMultipartForm returns, on every exit path, so that none is open when the
\* HTTP request is sent or after the call returns.
C7_FileClosed ==
    /\ Called => OpenHandles(trace) = 0
    /\ \A j \in DOMAIN trace :
         /\ OpenHandles(SubSeq(trace, 1, j)) \in {0, 1}
         /\ trace[j].ev \in {"send", "reply"} => OpenHandles(SubSeq(trace, 1, j - 1)) = 0
         /\ IsOpen(trace[j]) =>
              \E k \in DOMAIN trace :
                 /\ k > j /\ trace[k].ev = "fclose"
                 /\ \A m \in DOMAIN trace : (m > j /\ IsBuilderOp(trace[m])) => m < k

C7_Witness ==
    /\ phase = "returned"
    /\ \E j \in DOMAIN trace : IsOpen(trace[j])
    /\ \E j \in DOMAIN trace : trace[j].ev = "createFormFile" /\ ~trace[j].ok
    /\ trace[Len(trace)].ev = "fclose"

\* The URL of the endpoint the call is for.
EndpointURL == <<"h", ":", "/", "/", "o", "/", "a", "u", "d", "i", "o", "/">> \o endpointSuffix

\* C8 as stated: a call whose form assembly succeeds issues exactly one HTTP
\* request, a POST to the endpoint's URL.
C8_AsStated ==
    (Called /\ AssemblyOK) =>
        /\ Len(httpRequests) = 1
        /\ httpRequests[1].method = "POST"
        /\ httpRequests[1].url = EndpointURL

\* C8, amended: no call issues more than one HTTP request.  A call whose form
\* assembly succeeds and whose request is built (http.NewRequestWithContext
\* succeeds: the context is not nil) issues exactly one, a POST of the form to
\* {base}/audio/transcriptions or {base}/audio/translations; when the request
\* cannot be built the call returns that error and issues none.  A failed
\* request or a failed decode is returned as an error, without a second request.
C8_OneRequest ==
    /\ Len(httpRequests) <= 1 /\ Len(Sends) <= 1
    /\ (Called /\ AssemblyOK /\ ctx # "nil") =>
         /\ Len(httpRequests) = 1 /\ Len(Sends) = 1
         /\ httpRequests[1].method = "POST"
         /\ httpRequests[1].url = EndpointURL
         /\ httpRequests[1].body = FormBody(trace)
         /\ httpRequests[1].contentType = "multipart/form-data"
         /\ endpointSuffix \in {Transcriptions, Translations}
    /\ (Called /\ AssemblyOK /\ ctx = "nil") =>
         /\ phase = "returned" /\ httpRequests = <<>> /\ Sends = <<>>
         /\ err = "net/http: nil Context" /\ response = EmptyResponse
    /\ (phase = "returned" /\ Replied) =>
         /\ Len(httpRequests) = 1
         /\ ~LastReply.ok => (err = "transport" /\ response = EmptyResponse)
         /\ err # NoErr => response = EmptyResponse

C8_Witness ==
    /\ phase = "returned" /\ Replied /\ ~LastReply.ok
    /\ Len(httpRequests) = 1
    /\ endpointSuffix = Translations
    /\ err = "transport"

\* The request of the call with "json" for its Format.
Twin == [request EXCEPT !.Format = AudioResponseFormatJSON]

\* The form of the twin, assembled in an environment where nothing fails.
TwinBody == FormBody(audioMultipartForm(Twin, NoFaults).trace)

\* C9 as stated: two requests that differ only in Format being unset or "json"
\* write and submit the same form fields, and are decoded alike.
C9_AsStated ==
    (Called /\ AssemblyOK /\ request.Format = <<>>) =>
        /\ TwinBody = FormBody(trace)
        /\ HasJSONResponse(Twin) = HasJSONResponse(request)

\* C9, amended: of two requests that differ only in Format being unset or
\* "json" and whose forms are assembled, the "json" one writes the field
\* response_format=json (right after prompt, or after model when there is no
\* prompt) and the unset one does not; every other field is the same, in the
\* same order.  Both are decoded as JSON, and return the same result or error
\* for the same reply.
C9_UnsetVersusJSON ==
    (Called /\ AssemblyOK /\ request.Format = <<>>) =>
        LET body == FormBody(trace)
            k == IF request.Prompt # <<>> THEN 4 ELSE 3
        IN  /\ Len(TwinBody) = Len(body) + 1
            /\ TwinBody[k] = [name |-> "response_format", value |-> <<"j", "s", "o", "n">>,
                              data |-> <<>>]
            /\ SubSeq(TwinBody, 1, k - 1) = SubSeq(body, 1, k - 1)
            /\ SubSeq(TwinBody, k + 1, Len(TwinBody)) = SubSeq(body, k, Len(body))
            /\ Parts("response_format") = <<>>
            /\ HasJSONResponse(request) /\ HasJSONResponse(Twin)
            /\ \A reply \in Replies :
                 callAudioAPIReturn(Twin, reply) = callAudioAPIReturn(request, reply)
            /\ (phase = "returned" /\ Replied) =>
                 callAudioAPIReturn(Twin, [ok |-> LastReply.ok, body |-> LastReply.value])
                    = [response |-> response, err |-> err]

C9_Witness ==
    /\ phase = "returned" /\ Replied /\ AssemblyOK
    /\ request.Format = <<>> /\ request.Prompt # <<>>
    /\ response = [Text |-> <<"x">>]
    /\ Len(TwinBody) = Len(FormBody(trace)) + 1

BothSources == request.FilePath # <<>> /\ ~request.FileBytes.nil

\* C10: when FilePath is not empty and FileBytes is not nil, the path wins: the
\* 'file' part is written from the opened path by createFormFile only,
\* createFormFileFromBytes is never invoked, FileName is not examined (a nil or
\* extension-less one is no error), and a path that cannot be opened fails the
\* call with the open error, the bytes not being tried.
C10_PathPrecedence ==
    (Called /\ BothSources) =>
        /\ \A i \in DOMAIN trace : trace[i].ev # "createFormFileFromBytes"
        /\ err \notin {MsgFileName, MsgNeither}
        /\ trace # <<>>
        /\ trace[1].ev = "open" /\ trace[1].value = request.FilePath
        /\ trace[1].ok =>
             /\ Ops # <<>>
             /\ Ops[1].ev = "createFormFile"
             /\ Ops[1].name = "file"
             /\ Ops[1].value = request.FilePath
             /\ \A i \in DOMAIN Ops : Ops[i].name = "file" => i = 1
        /\ ~trace[1].ok => (err = "opening audio file" /\ Ops = <<>> /\ httpRequests = <<>>)

C10_Witness ==
    /\ Called /\ BothSources /\ AssemblyOK
    /\ request.FileName.nil
    /\ Len(httpRequests) = 1

C10_OpenFailsWitness ==
    /\ Called /\ BothSources /\ ~request.FileName.nil
    /\ err = "opening audio file"

============================================================================
